---- MODULE Spec2Model ----
(***************************************************************************)
(* A model of the AI2D-RST annotator: the batch driver (annotate.py), the  *)
(* layer loops of a Diagram (core/diagram.py), the generic command handler *)
(* (core/interface.py process_command) and the graph edits                 *)
(* (core/annotate.py, core/parse.py).                                      *)
(*                                                                         *)
(* Graphs are networkx.Graph objects: undirected, at most one edge per     *)
(* unordered pair of nodes, nodes kept in insertion order, attributes on   *)
(* nodes and edges, and a frozen flag that makes every mutator raise.      *)
(* Rendering (draw_graph, draw_layout, cv2) is left out.                   *)
(***************************************************************************)
EXTENDS Naturals, Sequences, FiniteSets, TLC

(***************************************************************************)
(* Bounds of the model.                                                    *)
(***************************************************************************)
\* how many of the identifiers of GroupPool create_id may return
MaxGroupIds == 2
\* how many relation nodes the RST graph may hold when new is typed
MaxRelations == 2

(***************************************************************************)
(* Identifiers and tokens.                                                 *)
(***************************************************************************)
\* the identifiers create_id can return (random strings of six characters)
GroupPool == <<"XK4Q2A", "M7PD0Z", "R2D2C3", "W8ZZ1Q">>

GroupIds == {GroupPool[i] : i \in 1..MaxGroupIds}

\* the g<i> names the loops give to group nodes
GroupAliasNames == <<"g1", "g2", "g3", "g4">>

\* the r<i> names the loops give to relation nodes
RelAliasNames == <<"r1", "r2", "r3", "r4", "r5", "r6", "r7", "r8">>

\* str.upper() on the strings of the model
Upper(s) ==
    CASE s = "b1" -> "B1" [] s = "b2" -> "B2" [] s = "t1" -> "T1"
      [] s = "i0" -> "I0" [] s = "g1" -> "G1" [] s = "g2" -> "G2"
      [] s = "g3" -> "G3" [] s = "g4" -> "G4" [] s = "zz" -> "ZZ"
      [] s = "r1" -> "R1" [] s = "r2" -> "R2" [] s = "r3" -> "R3"
      [] s = "xk4q2a" -> "XK4Q2A" [] s = "m7pd0z" -> "M7PD0Z"
      [] s = "r2d2c3" -> "R2D2C3" [] s = "w8zz1q" -> "W8ZZ1Q"
      [] OTHER -> s

\* str.lower() on the strings of the model
Lower(s) ==
    CASE s = "B1" -> "b1" [] s = "B2" -> "b2" [] s = "T1" -> "t1"
      [] s = "I0" -> "i0" [] s = "G1" -> "g1" [] s = "G2" -> "g2"
      [] s = "G3" -> "g3" [] s = "G4" -> "g4" [] s = "ZZ" -> "zz"
      [] s = "R1" -> "r1" [] s = "R2" -> "r2" [] s = "R3" -> "r3"
      [] s = "XK4Q2A" -> "xk4q2a" [] s = "M7PD0Z" -> "m7pd0z"
      [] s = "R2D2C3" -> "r2d2c3" [] s = "W8ZZ1Q" -> "w8zz1q"
      [] OTHER -> s

Range(seq) == {seq[i] : i \in 1..Len(seq)}

\* the position of x in seq (list.index), 0 when absent
IndexOf(seq, x) ==
    IF x \in Range(seq)
    THEN CHOOSE i \in 1..Len(seq) : seq[i] = x /\ \A j \in 1..(i - 1) : seq[j] # x
    ELSE 0

(***************************************************************************)
(* networkx.Graph                                                          *)
(***************************************************************************)
\* the value of an attribute a node or an edge does not have
NoAttr == "none"

\* the attributes of a node that create_relation never touched: keys is the
\* set of the attributes the node has among nucleus, satellites, nuclei and
\* rel_name
NoRel ==
    [keys |-> {}, rel_name |-> NoAttr, nucleus |-> <<>>, satellites |-> <<>>,
     nuclei |-> <<>>]

\* nx.Graph(): no nodes, no edges, not frozen
EmptyGraph ==
    [exists |-> TRUE, nodes |-> <<>>, kind |-> <<>>, macro |-> <<>>,
     rel |-> <<>>, edges |-> {}, frozen |-> FALSE]

\* the None an attribute holds before a graph is assigned to it
NullGraph ==
    [exists |-> FALSE, nodes |-> <<>>, kind |-> <<>>, macro |-> <<>>,
     rel |-> <<>>, edges |-> {}, frozen |-> FALSE]

NodeSet(g) == Range(g.nodes)

\* G.add_node(n, kind=k): a new node goes last; an existing node keeps its
\* place and has its kind overwritten
AddNode(g, n, k) ==
    IF n \in NodeSet(g)
    THEN [g EXCEPT !.kind = [m \in NodeSet(g) |-> IF m = n THEN k ELSE g.kind[m]]]
    ELSE [g EXCEPT !.nodes = Append(g.nodes, n),
                   !.kind = [m \in NodeSet(g) \cup {n} |->
                                IF m = n THEN k ELSE g.kind[m]],
                   !.macro = [m \in NodeSet(g) \cup {n} |->
                                IF m = n THEN NoAttr ELSE g.macro[m]],
                   !.rel = [m \in NodeSet(g) \cup {n} |->
                                IF m = n THEN NoRel ELSE g.rel[m]]]

\* G.add_node(n, kind='relation', **attrs): the attributes given overwrite
\* those of an existing node, the others stay
AddRelationNode(g, n, attrs) ==
    LET g1 == AddNode(g, n, "relation")
        old == g1.rel[n]
        new == [keys |-> old.keys \cup attrs.keys,
                rel_name |-> attrs.rel_name,
                nucleus |-> IF "nucleus" \in attrs.keys
                            THEN attrs.nucleus ELSE old.nucleus,
                satellites |-> IF "satellites" \in attrs.keys
                               THEN attrs.satellites ELSE old.satellites,
                nuclei |-> IF "nuclei" \in attrs.keys
                           THEN attrs.nuclei ELSE old.nuclei]
    IN  [g1 EXCEPT !.rel = [m \in NodeSet(g1) |-> IF m = n THEN new ELSE g1.rel[m]]]

\* a node that add_edge makes because an endpoint is not in the graph: it has
\* no attribute at all
ImplicitNode(g, n) ==
    IF n \in NodeSet(g) THEN g ELSE AddNode(g, n, NoAttr)

\* G.add_edge(u, v, kind=k); k = NoAttr is add_edge(u, v) with no attribute,
\* which leaves the attributes of an edge that is already there
AddEdge(g, u, v, k) ==
    LET g1 == ImplicitNode(ImplicitNode(g, u), v)
        old == {e \in g.edges : e.ends = {u, v}}
        k1 == IF k = NoAttr /\ old # {}
              THEN (CHOOSE e \in old : TRUE).kind ELSE k
    IN  [g1 EXCEPT !.edges = (g.edges \ old) \cup {[ends |-> {u, v}, kind |-> k1]}]

\* G.add_edges_from(pairs, kind=k), pairs a sequence of <<u, v>>
RECURSIVE AddEdgesFrom(_, _, _)
AddEdgesFrom(g, pairs, k) ==
    IF pairs = <<>> THEN g
    ELSE AddEdgesFrom(AddEdge(g, Head(pairs)[1], Head(pairs)[2], k), Tail(pairs), k)

\* G.remove_nodes_from(S): nodes not in the graph are skipped silently; the
\* edges of a removed node go with it
RemoveNodesFrom(g, S) ==
    LET keep == NodeSet(g) \ S
    IN  [g EXCEPT !.nodes = SelectSeq(g.nodes, LAMBDA n : n \notin S),
                  !.kind = [m \in keep |-> g.kind[m]],
                  !.macro = [m \in keep |-> g.macro[m]],
                  !.rel = [m \in keep |-> g.rel[m]],
                  !.edges = {e \in g.edges : e.ends \cap S = {}}]

\* G.remove_edges_from(E), E a set of endpoint sets
RemoveEdgesFrom(g, E) ==
    [g EXCEPT !.edges = {e \in g.edges : e.ends \notin E}]

\* G.edges(nbunch): the edges with an endpoint in nbunch
EdgesAt(g, S) == {e.ends : e \in {x \in g.edges : x.ends \cap S # {}}}

\* nx.isolates(G): the nodes of degree zero (a self-loop gives degree two)
Isolates(g) == {n \in NodeSet(g) : \A e \in g.edges : n \notin e.ends}

\* a freeze that does nothing
FreezeForgotten(g) == g

\* nx.freeze(G)
Freeze(g) == [g EXCEPT !.frozen = TRUE]

\* G.copy(): the same nodes, edges and attributes, not frozen
Copy(g) == [g EXCEPT !.frozen = FALSE]

\* nx.set_node_attributes(G, {n: label for n in S}, 'macro_group'): only the
\* nodes of the graph get the attribute; works on a frozen graph too
SetMacro(g, S, label) ==
    [g EXCEPT !.macro = [m \in NodeSet(g) |-> IF m \in S THEN label ELSE g.macro[m]]]

(***************************************************************************)
(* core/parse.py                                                           *)
(***************************************************************************)
\* get_node_dict(graph, kind): the nodes that have a kind attribute, in node
\* order, filtered by kind ("all" is the call without kind)
get_node_dict(g, kind) ==
    SelectSeq(g.nodes, LAMBDA n :
        /\ g.kind[n] # NoAttr
        /\ CASE kind = "group" -> g.kind[n] = "group"
             [] kind = "node" -> g.kind[n] \notin {"group", "relation"}
             [] kind = "relation" -> g.kind[n] = "relation"
             [] OTHER -> TRUE)

\* create_graph without edges and without arrowheads: one node per element,
\* tagged with its kind; elems is a sequence of <<id, kind>>
RECURSIVE create_graph(_)
create_graph(elems) ==
    IF elems = <<>> THEN EmptyGraph
    ELSE LET g == create_graph(SubSeq(elems, 1, Len(elems) - 1))
             e == elems[Len(elems)]
         IN  IF e[2] = "arrowHeads" THEN g ELSE AddNode(g, e[1], e[2])

\* An AI2D annotation is modelled by the set of its keys (the element
\* buckets and 'relationships'), the ids of each bucket in the order of the
\* file, and the relations in the order of the file.  A relation has a
\* category, an origin, a destination and a connector, which is NoAttr when
\* the relation has no 'connector' key and NullConnector when the key holds
\* a null.
NullConnector == "null"

\* targets of parse_annotation, in its order
ParseTargets ==
    <<"blobs", "arrows", "text", "arrowHeads", "containers", "imageConsts">>

\* targets of extract_types, in its order
TypeTargets ==
    <<"arrowHeads", "arrows", "blobs", "text", "containers", "imageConsts">>

\* the lists of a list of lists, one after the other
RECURSIVE Flatten(_)
Flatten(lists) ==
    IF lists = <<>> THEN <<>> ELSE Head(lists) \o Flatten(Tail(lists))

\* parse_annotation(annotation): a KeyError leaves diagram_elements (or
\* relations) unassigned, and the return statement then raises
parse_annotation(annotation) ==
    IF Range(ParseTargets) \cup {"relationships"} \subseteq annotation.keys
    THEN [res |-> "applied",
          diagram_elements |->
              Flatten([i \in 1..Len(ParseTargets) |-> annotation.ids[ParseTargets[i]]]),
          relations |-> annotation.relationships]
    ELSE [res |-> "crash", diagram_elements |-> <<>>, relations |-> <<>>]

\* extract_types(elements, annotation): for each element the targets are
\* tried in order until one is not a key of the annotation; the element gets
\* the last target tried whose bucket holds it.  The result lists <<id, kind>>
\* in the order of the elements.
extract_types(elements, annotation) ==
    LET missing == {i \in 1..Len(TypeTargets) : TypeTargets[i] \notin annotation.keys}
        tried == {i \in 1..Len(TypeTargets) : \A j \in missing : i < j}
        found(e) == {i \in tried : e \in Range(annotation.ids[TypeTargets[i]])}
        kind(e) == TypeTargets[CHOOSE i \in found(e) : \A j \in found(e) : j <= i]
        typed == SelectSeq(elements, LAMBDA e : found(e) # {})
    IN  [i \in 1..Len(typed) |-> <<typed[i], kind(typed[i])>>]

\* for element, kind in element_types.items(): graph.add_node(element, kind=kind)
RECURSIVE AddElements(_, _)
AddElements(g, elems) ==
    IF elems = <<>> THEN g
    ELSE AddElements(AddNode(g, Head(elems)[1], Head(elems)[2]), Tail(elems))

\* a loop over the relations that knows every arrowhead from the start
RECURSIVE AddRelationsTableFirst(_, _, _)
AddRelationsTableFirst(g, relations, arrowmap) ==
    LET tails == {i \in 1..Len(relations) : relations[i].category = "arrowHeadTail"}
        full == [a \in DOMAIN arrowmap \cup {relations[i].origin : i \in tails} |->
                    IF \E i \in tails : relations[i].origin = a
                    THEN relations[CHOOSE i \in tails : relations[i].origin = a].destination
                    ELSE arrowmap[a]]
    IN  IF relations = <<>> THEN g
        ELSE LET r == Head(relations)
                 g1 == IF r.category = "arrowHeadTail"
                       THEN AddEdge(g, r.origin, r.destination, NoAttr) ELSE g
                 g2 == CASE r.connector = NoAttr ->
                               AddEdge(g1, r.origin, r.destination, NoAttr)
                          [] r.connector = NullConnector -> g1
                          [] r.connector \in DOMAIN full ->
                               AddEdge(AddEdge(g1, r.origin, r.connector, NoAttr),
                                       full[r.connector], r.destination, NoAttr)
                          [] OTHER ->
                               AddEdge(AddEdge(g1, r.origin, r.connector, NoAttr),
                                       r.connector, r.destination, NoAttr)
             IN  AddRelationsTableFirst(g2, Tail(relations), full)

\* create_graph, the loop over the relations: arrowmap is the dictionary of
\* the arrows and their arrowheads, a function from arrow to arrowhead
RECURSIVE AddRelations(_, _, _)
AddRelations(g, relations, arrowmap) ==
    IF relations = <<>> THEN g
    ELSE LET r == Head(relations)
             tail == r.category = "arrowHeadTail"
             g1 == IF tail THEN AddEdge(g, r.origin, r.destination, NoAttr) ELSE g
             m1 == IF tail
                   THEN [a \in DOMAIN arrowmap \cup {r.origin} |->
                            IF a = r.origin THEN r.destination ELSE arrowmap[a]]
                   ELSE arrowmap
             g2 == CASE r.connector = NoAttr ->
                           AddEdge(g1, r.origin, r.destination, NoAttr)
                      [] r.connector = NullConnector -> g1
                      [] r.connector \in DOMAIN m1 ->
                           AddEdge(AddEdge(g1, r.origin, r.connector, NoAttr),
                                   m1[r.connector], r.destination, NoAttr)
                      [] OTHER ->
                           AddEdge(AddEdge(g1, r.origin, r.connector, NoAttr),
                                   r.connector, r.destination, NoAttr)
         IN  AddRelations(g2, Tail(relations), m1)

\* create_graph(annotation, edges, arrowheads)
create_graph_of(annotation, edges, arrowheads) ==
    LET p == parse_annotation(annotation)
        element_types == extract_types(p.diagram_elements, annotation)
        kept == IF arrowheads THEN element_types
                ELSE SelectSeq(element_types, LAMBDA x : x[2] # "arrowHeads")
        graph == AddElements(EmptyGraph, kept)
    IN  IF p.res = "crash" THEN [res |-> "crash", g |-> NullGraph]
        ELSE [res |-> "applied",
              g |-> IF edges THEN AddRelations(graph, p.relations, <<>>)
                    ELSE graph]

(***************************************************************************)
(* core/annotate.py                                                        *)
(***************************************************************************)
\* for s in srcs: for t in tgts: <<Upper(s), Upper(t)>>
RECURSIVE UpperPairs(_, _)
UpperPairs(srcs, tgts) ==
    IF srcs = <<>> THEN <<>>
    ELSE [i \in 1..Len(tgts) |-> <<Upper(Head(srcs)), Upper(tgts[i])>>]
         \o UpperPairs(Tail(srcs), tgts)

\* for k in ks: for e in elems: <<Upper(e), Upper(k)>>
RECURSIVE PairsToEach(_, _)
PairsToEach(ks, elems) ==
    IF ks = <<>> THEN <<>>
    ELSE [i \in 1..Len(elems) |-> <<Upper(elems[i]), Upper(Head(ks))>>]
         \o PairsToEach(Tail(ks), elems)

\* the result of an edit: the graph, and whether the edit was applied,
\* rejected with a message, or raised
Applied(g) == [g |-> g, res |-> "applied"]
Rejected(g) == [g |-> g, res |-> "rejected"]
Raised(g) == [g |-> g, res |-> "crash"]

\* group_nodes(graph, user_input) with new_id the value create_id() returns
group_nodes(g, user_input, new_id) ==
    LET types == {g.kind[Upper(user_input[i])] : i \in 1..Len(user_input)}
        consts == SelectSeq(get_node_dict(g, "all"),
                            LAMBDA k : g.kind[k] = "imageConsts")
    IN  IF NoAttr \in types \/ g.frozen THEN Raised(g)
        ELSE IF "imageConsts" \in types
        THEN Applied(AddEdgesFrom(g, PairsToEach(consts, user_input), NoAttr))
        ELSE [g |-> AddEdgesFrom(AddNode(g, new_id, "group"),
                                 UpperPairs(user_input, <<new_id>>), NoAttr),
              res |-> "applied", id |-> new_id]

\* macro_groups: some of the aliases and names of interface.py
MacroAliases == {"net", "cycle", "hor"}

MacroName(a) ==
    CASE a = "net" -> "network" [] a = "hor" -> "horizontal" [] OTHER -> a

MacroNames == {MacroName(a) : a \in MacroAliases}

\* a macro_group that writes the answer before it looks it up
macro_group_eager(g, user_input, answer) ==
    LET g1 == SetMacro(g, {Upper(user_input[i]) : i \in 1..Len(user_input)}, answer)
    IN  IF answer \notin MacroAliases \cup MacroNames THEN Rejected(g1)
        ELSE Applied(g1)

\* a macro_group that stores the abbreviation as typed
macro_group_as_typed(g, user_input, answer) ==
    IF answer \notin MacroAliases \cup MacroNames THEN Rejected(g)
    ELSE Applied(SetMacro(g, {Upper(user_input[i]) : i \in 1..Len(user_input)},
                          answer))

\* macro_group(graph, user_input) with answer the macro group the operator types
macro_group(g, user_input, answer) ==
    IF answer \notin MacroAliases \cup MacroNames THEN Rejected(g)
    ELSE LET name == IF answer \in MacroAliases THEN MacroName(answer) ELSE answer
         IN  Applied(SetMacro(g, {Upper(user_input[i]) : i \in 1..Len(user_input)},
                              name))

\* rst_relations: some of the aliases of interface.py, with their kind
RstRelations == {"elab", "join"}

RstName(a) == CASE a = "elab" -> "elaboration" [] OTHER -> "joint"

RstKind(a) == CASE a = "elab" -> "mono" [] OTHER -> "multi"

\* '+'.join(tokens).upper()
RECURSIVE JoinPlus(_)
JoinPlus(tokens) ==
    IF tokens = <<>> THEN ""
    ELSE IF Len(tokens) = 1 THEN Upper(tokens[1])
    ELSE Upper(tokens[1]) \o "+" \o JoinPlus(Tail(tokens))

\* the edges of kind k that create_relation draws between the participants
\* ps and the relation new: a participant that is a relation alias stands
\* for that relation when resolve is set, every other participant for its
\* upper-cased token
RECURSIVE ParticipantEdges(_, _, _, _, _, _)
ParticipantEdges(g, rels, ps, new, k, resolve) ==
    IF ps = <<>> THEN g
    ELSE LET p == Head(ps)
             at == IndexOf(RelAliasNames, p)
             n == IF resolve /\ at \in 1..Len(rels) THEN rels[at] ELSE Upper(p)
         IN  ParticipantEdges(AddEdge(g, n, new, k), rels, Tail(ps), new, k, resolve)

\* create_relation(rst_graph, user_input): first is the answer to the prompt
\* for the nucleus (or for the nuclei), second the answer to the prompt for
\* the satellites, both split at white space
create_relation(g, user_input, first, second) ==
    LET rels == get_node_dict(g, "relation")
        valid_ids == {Lower(n) : n \in Range(get_node_dict(g, "node"))}
                     \cup {RelAliasNames[i] : i \in 1..Len(rels)}
        nucleus == [i \in 1..Len(first) |-> Lower(first[i])]
        satellites == [i \in 1..Len(second) |-> Lower(second[i])]
        mono_id == JoinPlus(nucleus) \o "-" \o JoinPlus(satellites)
        multi_id == JoinPlus(nucleus)
        mono_node == AddRelationNode(g, mono_id,
                        [keys |-> {"nucleus", "satellites", "rel_name"},
                         rel_name |-> RstName(user_input), nucleus |-> nucleus,
                         satellites |-> satellites, nuclei |-> <<>>])
        multi_node == AddRelationNode(g, multi_id,
                        [keys |-> {"nuclei", "rel_name"},
                         rel_name |-> RstName(user_input), nucleus |-> <<>>,
                         satellites |-> <<>>, nuclei |-> nucleus])
    IN  IF ~g.exists THEN Raised(g)
        ELSE IF RstKind(user_input) = "mono"
        THEN IF Len(nucleus) # 1 THEN Rejected(g)
             ELSE IF ~(Range(nucleus) \subseteq valid_ids) THEN Rejected(g)
             ELSE IF ~(Range(satellites) \subseteq valid_ids) THEN Rejected(g)
             ELSE IF g.frozen THEN Raised(g)
             ELSE Applied(ParticipantEdges(
                      ParticipantEdges(mono_node, rels, satellites, mono_id,
                                       "satellite", TRUE),
                      rels, nucleus, mono_id, "nucleus", FALSE))
        ELSE IF Len(nucleus) <= 1 THEN Rejected(g)
             ELSE IF ~(Range(nucleus) \subseteq valid_ids) THEN Rejected(g)
             ELSE IF g.frozen THEN Raised(g)
             ELSE Applied(ParticipantEdges(multi_node, rels, nucleus, multi_id,
                                           "nucleus", TRUE))

(***************************************************************************)
(* core/diagram.py: the structural edits of the layer loops                *)
(***************************************************************************)
\* group_dict = {"g<i>": id} over the group nodes, in node order
GroupAliases(g) ==
    LET groups == get_node_dict(g, "group")
    IN  {GroupAliasNames[i] : i \in 1..Len(groups)}

\* an enumeration that counts the groups from the last one
GroupOfAliasFromEnd(g, a) ==
    LET groups == get_node_dict(g, "group")
    IN  groups[Len(groups) + 1 - IndexOf(GroupAliasNames, a)]

GroupOfAlias(g, a) == get_node_dict(g, "group")[IndexOf(GroupAliasNames, a)]

\* valid_elems: the node names in lower case and the group aliases
ValidElems(g) == {Lower(n) : n \in NodeSet(g)} \cup GroupAliases(g)

\* [group_dict[u] if u in valid_groups else u for u in user_input]
ReplaceAliases(g, tokens) ==
    [i \in 1..Len(tokens) |->
        IF tokens[i] \in GroupAliases(g) THEN GroupOfAlias(g, tokens[i])
        ELSE tokens[i]]

\* annotate_layout, the branch for a list of elements to group; tokens is the
\* input split at commas and stripped
LayoutGroup(g, tokens, new_id) ==
    IF ~(Range(tokens) \subseteq ValidElems(g)) THEN Rejected(g)
    ELSE IF Len(tokens) = 1 THEN Rejected(g)
    ELSE group_nodes(g, ReplaceAliases(g, tokens), new_id)

\* annotate_layout, the branch for "macro <ids>"; tokens is the rest of the
\* input, lower-cased and split at white space
LayoutMacro(g, typed, answer) ==
    LET tokens == [i \in 1..Len(typed) |-> Lower(typed[i])]
    IN  IF ~(Range(tokens) \subseteq ValidElems(g)) THEN Rejected(g)
        ELSE macro_group(g, ReplaceAliases(g, tokens), answer)

\* annotate_rst, the branch for "new": relation is the answer to the prompt
\* for the relation, stripped and lower-cased
RstNew(g, relation, first, second) ==
    IF Lower(relation) \notin RstRelations THEN Rejected(g)
    ELSE create_relation(g, Lower(relation), first, second)

\* connection_types, in the order of the dictionary
ConnectionAliases == <<"-", ">", "<>">>

ConnectionType(a) ==
    CASE a = "-" -> "undirectional" [] a = ">" -> "directional"
      [] OTHER -> "bidirectional"

\* x.strip(',')
StripComma(s) ==
    CASE s = "b1," -> "b1" [] s = "b2," -> "b2" [] s = "t1," -> "t1"
      [] OTHER -> s

\* the loop over connection_types: st is the loop's variables (found, source,
\* target, type) and done is set by break
RECURSIVE ScanConnection(_, _, _, _)
ScanConnection(g, user_input, i, st) ==
    IF i > Len(ConnectionAliases) \/ st.done THEN st
    ELSE LET alias == ConnectionAliases[i]
         IN  IF alias \notin Range(user_input)
             THEN ScanConnection(g, user_input, i + 1, st)
             ELSE LET ix == IndexOf(user_input, alias)
                      src == [j \in 1..(ix - 1) |-> StripComma(user_input[j])]
                      tgt == [j \in 1..(Len(user_input) - ix) |->
                                 StripComma(user_input[ix + j])]
                      valid == {Lower(n) : n \in NodeSet(g)}
                      st1 == [st EXCEPT !.source = src, !.target = tgt,
                                        !.type = ConnectionType(alias)]
                  IN  IF ~((Range(src) \cup Range(tgt)) \subseteq valid)
                      THEN [st1 EXCEPT !.done = TRUE]
                      ELSE ScanConnection(g, user_input, i + 1,
                                          [st1 EXCEPT !.found = TRUE])

\* annotate_connectivity, the branch for a connection; user_input is the
\* input split at blanks
ConnEdit(g, user_input) ==
    LET st == ScanConnection(g, user_input, 1,
                  [found |-> FALSE, done |-> FALSE, source |-> <<>>,
                   target |-> <<>>, type |-> NoAttr])
        forth == UpperPairs(st.source, st.target)
        back == IF st.type = "bidirectional"
                THEN UpperPairs(st.target, st.source) ELSE <<>>
    IN  IF ~st.found THEN Rejected(g)
        ELSE IF g.frozen THEN Raised(g)
        ELSE Applied(AddEdgesFrom(g, forth \o back, st.type))

\* a connectivity graph that keeps the groups
ConnGraphWithGroups(layout) ==
    create_graph([i \in 1..Len(layout.nodes) |->
                     <<layout.nodes[i], layout.kind[layout.nodes[i]]>>])

\* annotate_connectivity, before its loop: the connectivity graph is made
\* anew from the nodes of the layout graph that are not groups
ConnGraphFrom(layout) ==
    LET nodes == SelectSeq(layout.nodes, LAMBDA n : layout.kind[n] # "group")
    IN  create_graph([i \in 1..Len(nodes) |-> <<nodes[i], layout.kind[nodes[i]]>>])

(***************************************************************************)
(* The Diagram object (core/diagram.py)                                    *)
(***************************************************************************)
Layers == {"layout", "connectivity", "rst"}

\* Diagram.__init__: all flags false, the layout graph made from the
\* annotation, the other two graphs None.  done_seen is a history field, not
\* an attribute of the object: done_seen[l] says that done has been executed
\* on layer l.
Diagram(annotation) ==
    [made |-> TRUE,
     complete |-> FALSE, group_complete |-> FALSE,
     connectivity_complete |-> FALSE, rst_complete |-> FALSE,
     layout_graph |-> create_graph(annotation),
     connectivity_graph |-> NullGraph,
     rst_graph |-> NullGraph,
     done_seen |-> [l \in Layers |-> FALSE]]

\* the None in the column 'diagram' of a row that has no Diagram yet
NoDiagram ==
    [made |-> FALSE,
     complete |-> FALSE, group_complete |-> FALSE,
     connectivity_complete |-> FALSE, rst_complete |-> FALSE,
     layout_graph |-> NullGraph, connectivity_graph |-> NullGraph,
     rst_graph |-> NullGraph,
     done_seen |-> [l \in Layers |-> FALSE]]

\* current_graph of a layer loop
GraphOf(dg, mode) ==
    CASE mode = "layout" -> dg.layout_graph
      [] mode = "connectivity" -> dg.connectivity_graph
      [] OTHER -> dg.rst_graph

SetGraph(dg, mode, g) ==
    CASE mode = "layout" -> [dg EXCEPT !.layout_graph = g]
      [] mode = "connectivity" -> [dg EXCEPT !.connectivity_graph = g]
      [] OTHER -> [dg EXCEPT !.rst_graph = g]

FlagOf(dg, mode) ==
    CASE mode = "layout" -> dg.group_complete
      [] mode = "connectivity" -> dg.connectivity_complete
      [] OTHER -> dg.rst_complete

(***************************************************************************)
(* Helpers that process_command calls and that are not among the sources:  *)
(* prepare_input, validate_input, replace_aliases.                         *)
(***************************************************************************)
\* prepare_input(user_input, 1): the tokens after the command, lower-cased
prepare_input(typed) == [i \in 1..Len(typed) |-> Lower(typed[i])]

\* replace_aliases(graph, 'relation'): the aliases of the relation nodes
RelAliases(g) ==
    {RelAliasNames[i] : i \in 1..Len(get_node_dict(g, "relation"))}

RelOfAlias(g, a) == get_node_dict(g, "relation")[IndexOf(RelAliasNames, a)]

\* validate_input(user_input, graph, rst): every token names a node of the
\* graph or is a group alias (or, with rst, a relation alias)
validate_input(tokens, g, rst) ==
    Range(tokens) \subseteq
        (ValidElems(g) \cup (IF rst THEN RelAliases(g) ELSE {}))

(***************************************************************************)
(* core/interface.py: process_command.  Each operator gives the Diagram    *)
(* after the command and whether the command was applied, was rejected or  *)
(* raised.  A mutator of a frozen graph raises, and so does any use of a   *)
(* graph that is None.                                                     *)
(***************************************************************************)
Ok(dg) == [d |-> dg, res |-> "applied"]
Reject(dg) == [d |-> dg, res |-> "rejected"]
Crash(dg) == [d |-> dg, res |-> "crash"]

\* the flag that done sets for the mode
SetDoneFlag(dg, mode) ==
    CASE mode = "layout" -> [dg EXCEPT !.group_complete = TRUE]
      [] mode = "connectivity" -> [dg EXCEPT !.connectivity_complete = TRUE]
      [] OTHER -> [dg EXCEPT !.rst_complete = TRUE]

\* a selection that takes every edge for a grouping edge
EveryEdgeBunch(g) == {e.ends : e \in g.edges}

\* the edges done and export take for grouping edges: when an edge has no
\* kind the KeyError is passed over and the whole edge list is kept
GroupingEdgeBunch(g) ==
    IF \E e \in g.edges : e.kind = NoAttr
    THEN {e.ends : e \in g.edges}
    ELSE {e.ends : e \in {x \in g.edges : x.kind = "grouping"}}

\* what done and export do to the graph: grouping edges away (not on the
\* layout layer), then the isolates away
StripAndPrune(g, mode) ==
    LET g1 == IF mode \in {"rst", "connectivity"}
              THEN RemoveEdgesFrom(g, GroupingEdgeBunch(g)) ELSE g
    IN  RemoveNodesFrom(g1, Isolates(g1))

\* command 'done'
PcDone(dg, mode) ==
    LET d1 == [SetDoneFlag(dg, mode) EXCEPT !.done_seen[mode] = TRUE]
        g == GraphOf(dg, mode)
    IN  IF ~g.exists \/ g.frozen THEN Crash(d1)
        ELSE Ok(SetGraph(d1, mode, Freeze(StripAndPrune(g, mode))))

\* command 'export'
PcExport(dg, mode) ==
    LET g == GraphOf(dg, mode)
    IN  IF ~g.exists \/ g.frozen THEN Crash(dg)
        ELSE Ok(SetGraph(dg, mode, StripAndPrune(g, mode)))

\* a free that looks no alias up
PcFreeUnresolved(dg, mode, typed) ==
    LET g == GraphOf(dg, mode)
        tokens == prepare_input(typed)
        ids == {Upper(tokens[i]) : i \in 1..Len(tokens)}
    IN  IF ~g.exists THEN Crash(dg)
        ELSE IF ~validate_input(tokens, g, FALSE) THEN Reject(dg)
        ELSE IF g.frozen THEN Crash(dg)
        ELSE Ok(SetGraph(dg, mode, RemoveEdgesFrom(g, EdgesAt(g, ids))))

\* command 'free <ids>'
PcFree(dg, mode, typed) ==
    LET g == GraphOf(dg, mode)
        tokens == prepare_input(typed)
        ids1 == [i \in 1..Len(tokens) |->
                   IF tokens[i] \in GroupAliases(dg.layout_graph)
                   THEN GroupOfAlias(dg.layout_graph, tokens[i])
                   ELSE Upper(tokens[i])]
        ids2 == IF mode = "rst"
                THEN [i \in 1..Len(ids1) |->
                        IF ids1[i] \in RelAliases(dg.rst_graph)
                        THEN RelOfAlias(dg.rst_graph, ids1[i])
                        ELSE Upper(ids1[i])]
                ELSE ids1
    IN  IF ~g.exists THEN Crash(dg)
        ELSE IF ~validate_input(tokens, g, FALSE) THEN Reject(dg)
        ELSE IF g.frozen THEN Crash(dg)
        ELSE Ok(SetGraph(dg, mode, RemoveEdgesFrom(g, EdgesAt(g, Range(ids2)))))

\* command 'isolate'
PcIsolate(dg, mode) ==
    LET g == GraphOf(dg, mode)
    IN  IF ~g.exists \/ g.frozen THEN Crash(dg)
        ELSE Ok(SetGraph(dg, mode, RemoveNodesFrom(g, Isolates(g))))

\* command 'ungroup': the KeyError of an edge without kind is not caught
PcUngroup(dg, mode) ==
    LET g == GraphOf(dg, mode)
    IN  IF ~g.exists \/ g.frozen \/ (\E e \in g.edges : e.kind = NoAttr)
        THEN Crash(dg)
        ELSE Ok(SetGraph(dg, mode, RemoveEdgesFrom(g,
                    {e.ends : e \in {x \in g.edges : x.kind = "grouping"}})))

\* command 'reset': diagram.reset is read; nothing among the sources ever
\* assigns that attribute, so the read raises
PcReset(dg, mode) == Crash(dg)

\* command 'rm <ids>'
PcRm(dg, mode, typed) ==
    LET g == GraphOf(dg, mode)
        tokens == prepare_input(typed)
        ids1 == [i \in 1..Len(tokens) |->
                   IF tokens[i] \in GroupAliases(g)
                   THEN GroupOfAlias(g, tokens[i]) ELSE tokens[i]]
        ids2 == IF mode = "rst"
                THEN [i \in 1..Len(ids1) |->
                        IF ids1[i] \in RelAliases(g)
                        THEN RelOfAlias(g, ids1[i]) ELSE Upper(ids1[i])]
                ELSE ids1
    IN  IF ~g.exists THEN Crash(dg)
        ELSE IF ~validate_input(tokens, g, mode = "rst") THEN Reject(dg)
        ELSE IF g.frozen THEN Crash(dg)
        ELSE Ok(SetGraph(dg, mode, RemoveNodesFrom(g, Range(ids2))))

(***************************************************************************)
(* annotate.py: the batch driver                                           *)
(***************************************************************************)
\* the rows of the input DataFrame: for each row the elements of its
\* annotation, as <<id, kind>> in the order parse_annotation lists them
Annotations ==
    << << <<"B1", "blobs">>, <<"B2", "blobs">>, <<"T1", "text">>,
          <<"I0", "imageConsts">> >> >>

NumRows == Len(Annotations)

VARIABLES
    pc,           \* where the program is: "idle" (not running), "row" (at the
                  \* head of the loop over rows) or the layer whose loop waits
                  \* for input
    ix,           \* the row the driver is at
    review,       \* the -r flag of the running session
    disable_rst,  \* the -dr flag of the running session
    d,            \* the Diagram of the current row, in memory
    disk,         \* the output file: the Diagram stored for each row
    last          \* the last step taken: what, on which layer, how it ended,
                  \* what the operator typed and the id create_id returned

vars == <<pc, ix, review, disable_rst, d, disk, last>>

\* what the operator typed for a step: the identifiers, the answer to a
\* second prompt (macro group, relation), the answer to a third (satellites)
Typed(input, answer, more) == [input |-> input, answer |-> answer, more |-> more]

Nothing == Typed(<<>>, NoAttr, <<>>)

\* was is a history field: the nodes the graph of the layer had when the
\* command was typed
Step(act, layer, res, typed, id) ==
    [act |-> act, layer |-> layer, res |-> res, input |-> typed.input,
     answer |-> typed.answer, more |-> typed.more, id |-> id, was |-> {}]

\* a review that forgets the flags of the later layers
ClearFlagsOfLayout(dg) ==
    [dg EXCEPT !.group_complete = FALSE, !.complete = FALSE]

\* review mode sets the four flags of a stored Diagram to False
ClearFlags(dg) ==
    [dg EXCEPT !.group_complete = FALSE, !.connectivity_complete = FALSE,
               !.rst_complete = FALSE, !.complete = FALSE]

\* the end of the pass over a Diagram that was opened: complete is set
MarkComplete(dg) ==
    [dg EXCEPT !.complete = dg.group_complete /\ dg.connectivity_complete
                            /\ dg.rst_complete]

AfterRst(dg) == [pc |-> "rowend", d |-> MarkComplete(dg)]

\* annotate_rst is called when connectivity is complete and RST is enabled;
\* its loop waits for input unless rst_complete is set already
AfterConnectivity(dg, dr) ==
    IF dg.connectivity_complete /\ ~dr
    THEN IF ~dg.rst_complete THEN [pc |-> "rst", d |-> dg] ELSE AfterRst(dg)
    ELSE AfterRst(dg)

\* annotate_connectivity up to its loop: a new connectivity graph
OpenConnectivity(dg) ==
    [dg EXCEPT !.connectivity_graph = ConnGraphFrom(dg.layout_graph)]

\* annotate_connectivity is called when grouping is complete
AfterLayout(dg, dr) ==
    IF dg.group_complete
    THEN LET d1 == OpenConnectivity(dg)
         IN  IF ~d1.connectivity_complete
             THEN [pc |-> "connectivity", d |-> d1]
             ELSE AfterConnectivity(d1, dr)
    ELSE AfterConnectivity(dg, dr)

\* a loop body that does not look at complete
BeginRowWhatever(dg, dr) ==
    IF ~dg.group_complete THEN [pc |-> "layout", d |-> dg]
    ELSE AfterLayout(dg, dr)

\* the body of the loop over rows for a Diagram, up to the first prompt
BeginRow(dg, dr) ==
    IF ~dg.complete
    THEN IF ~dg.group_complete THEN [pc |-> "layout", d |-> dg]
         ELSE AfterLayout(dg, dr)
    ELSE [pc |-> "rowend", d |-> dg]

\* a driver that opens the layer after the one that returned, whatever the
\* flags say
ReturnFromOnward(layer, dg, dr) ==
    CASE layer = "layout" -> [pc |-> "connectivity", d |-> OpenConnectivity(dg)]
      [] layer = "connectivity" ->
            IF dr THEN AfterRst(dg) ELSE [pc |-> "rst", d |-> dg]
      [] OTHER -> AfterRst(dg)

\* a layer loop has returned
ReturnFrom(layer, dg, dr) ==
    CASE layer = "layout" -> AfterLayout(dg, dr)
      [] layer = "connectivity" -> AfterConnectivity(dg, dr)
      [] OTHER -> AfterRst(dg)

\* a driver that stores the Diagram in the column and leaves the file alone
GoOnUnwritten(p) ==
    /\ pc' = IF p.pc = "rowend" THEN "row" ELSE p.pc
    /\ ix' = IF p.pc = "rowend" THEN ix + 1 ELSE ix
    /\ d' = p.d
    /\ disk' = disk

\* the driver goes on to p: it waits at a prompt, or it has reached the end
\* of the row, where the Diagram is stored and the file written
GoOn(p) ==
    IF p.pc = "rowend"
    THEN /\ pc' = "row"
         /\ ix' = ix + 1
         /\ d' = p.d
         /\ disk' = [disk EXCEPT ![ix] = p.d]
    ELSE /\ pc' = p.pc
         /\ ix' = ix
         /\ d' = p.d
         /\ disk' = disk

\* the program is started
StartSession ==
    /\ pc = "idle"
    /\ pc' = "row"
    /\ ix' = 1
    /\ review' \in BOOLEAN
    /\ disable_rst' \in BOOLEAN
    /\ d' = NoDiagram
    /\ last' = Step("start", "none", "applied", Nothing, NoAttr)
    /\ UNCHANGED disk

\* the head of the loop over rows: the stored Diagram is taken, or a new one
\* is made, and the driver goes on to the first prompt
OpenRow ==
    /\ pc = "row"
    /\ ix <= NumRows
    /\ LET d0 == IF disk[ix].made
                 THEN IF review THEN ClearFlags(disk[ix]) ELSE disk[ix]
                 ELSE Diagram(Annotations[ix])
       IN  GoOn(BeginRow(d0, disable_rst))
    /\ last' = Step("open", "none", "applied", Nothing, NoAttr)
    /\ UNCHANGED <<review, disable_rst>>

\* the loop over rows is over: the program ends
Finish ==
    /\ pc = "row"
    /\ ix > NumRows
    /\ pc' = "idle"
    /\ d' = NoDiagram
    /\ last' = Step("finish", "none", "applied", Nothing, NoAttr)
    /\ UNCHANGED <<ix, review, disable_rst, disk>>

(***************************************************************************)
(* The layer loops: one step reads one line of input and handles it.       *)
(***************************************************************************)
\* a command was handled with result r; leaves says that the loop returns
\* when the command did not raise
Handle(act, typed, r, leaves) ==
    /\ last' = [Step(act, pc, r.res, typed,
                      IF "id" \in DOMAIN r THEN r.id ELSE NoAttr)
                   EXCEPT !.was = NodeSet(GraphOf(d, pc))]
    /\ UNCHANGED <<review, disable_rst>>
    /\ IF r.res = "crash"
       THEN /\ pc' = "idle"
            /\ d' = r.d
            /\ UNCHANGED <<ix, disk>>
       ELSE IF leaves
       THEN GoOn(ReturnFrom(pc, r.d, disable_rst))
       ELSE /\ d' = r.d
            /\ UNCHANGED <<pc, ix, disk>>

Done ==
    /\ pc \in Layers
    /\ Handle("done", Nothing, PcDone(d, pc), TRUE)

Next_ ==
    /\ pc \in Layers
    /\ Handle("next", Nothing, Ok(d), TRUE)

\* exit(): the process ends at once, nothing is written
Exit ==
    /\ pc \in Layers
    /\ pc' = "idle"
    /\ d' = NoDiagram
    /\ last' = Step("exit", pc, "applied", Nothing, NoAttr)
    /\ UNCHANGED <<ix, review, disable_rst, disk>>

Export ==
    /\ pc \in Layers
    /\ Handle("export", Nothing, PcExport(d, pc), FALSE)

Isolate ==
    /\ pc \in Layers
    /\ Handle("isolate", Nothing, PcIsolate(d, pc), FALSE)

Reset ==
    /\ pc \in Layers
    /\ Handle("reset", Nothing, PcReset(d, pc), FALSE)

Ungroup ==
    /\ pc \in {"connectivity", "rst"}
    /\ Handle("ungroup", Nothing, PcUngroup(d, pc), FALSE)

Free(inputs) ==
    /\ pc \in Layers
    /\ \E typed \in inputs :
          Handle("free", Typed(typed, NoAttr, <<>>), PcFree(d, pc, typed), FALSE)

Rm(inputs) ==
    /\ pc \in Layers
    /\ \E typed \in inputs :
          Handle("rm", Typed(typed, NoAttr, <<>>), PcRm(d, pc, typed), FALSE)

\* a result of an edit of the graph of the current layer, as a result for
\* the Diagram
OnLayer(r) ==
    [d |-> SetGraph(d, pc, r.g), res |-> r.res,
     id |-> IF "id" \in DOMAIN r THEN r.id ELSE NoAttr]

Group(inputs, ids) ==
    /\ pc = "layout"
    /\ \E tokens \in inputs, new_id \in ids :
          LET r == LayoutGroup(d.layout_graph, tokens, new_id)
          IN  Handle("group", Typed(tokens, NoAttr, <<>>),
                     OnLayer(r), FALSE)

Macro(inputs, answers) ==
    /\ pc = "layout"
    /\ \E typed \in inputs, answer \in answers :
          LET r == LayoutMacro(d.layout_graph, typed, answer)
          IN  Handle("macro", Typed(typed, answer, <<>>),
                     OnLayer(r), FALSE)

Connect(inputs) ==
    /\ pc = "connectivity"
    /\ \E user_input \in inputs :
          LET r == ConnEdit(d.connectivity_graph, user_input)
          IN  Handle("connect", Typed(user_input, NoAttr, <<>>),
                     OnLayer(r), FALSE)

\* an empty line at the prompt of a layer.  annotate_layout: the line is no
\* command, and the macro test takes user_input.split()[0] of it;
\* annotate_connectivity: the line is split at blanks and searched for a
\* connection type; annotate_rst: the line is no command
BlankLine(dg, mode) ==
    CASE mode = "layout" -> Crash(dg)
      [] mode = "connectivity" ->
            LET r == ConnEdit(dg.connectivity_graph, <<"">>)
            IN  [d |-> SetGraph(dg, mode, r.g), res |-> r.res]
      [] OTHER -> Reject(dg)

Blank ==
    /\ pc \in Layers
    /\ Handle("blank", Nothing, BlankLine(d, pc), FALSE)

New(relations, firsts, seconds) ==
    /\ pc = "rst"
    /\ Len(get_node_dict(d.rst_graph, "relation")) < MaxRelations
    /\ \E relation \in relations, first \in firsts, second \in seconds :
          LET r == RstNew(d.rst_graph, relation, first, second)
          IN  Handle("new", Typed(first, relation, second),
                     OnLayer(r), FALSE)

(***************************************************************************)
(* The whole program, with the inputs of a short session.                  *)
(***************************************************************************)
SessionGroupInputs ==
    {<<"b1", "b2">>, <<"b1", "zz">>, <<"b1">>, <<"b2", "b2">>}

SessionIdInputs == {<<"g1">>, <<"zz">>}

SessionConnInputs == {<<"b1", "<>", "b2">>, <<"b1", "b2">>, <<"b1", "-", "zz">>}

Init ==
    /\ pc = "idle"
    /\ ix = 1
    /\ review = FALSE
    /\ disable_rst = FALSE
    /\ d = NoDiagram
    /\ disk = [r \in 1..NumRows |-> NoDiagram]
    /\ last = Step("none", "none", "applied", Nothing, NoAttr)

Next ==
    \/ StartSession
    \/ OpenRow
    \/ Finish
    \/ Done
    \/ Next_
    \/ Exit
    \/ Export
    \/ Isolate
    \/ Reset
    \/ Ungroup
    \/ Free(SessionIdInputs)
    \/ Rm(SessionIdInputs)
    \/ Group(SessionGroupInputs, {GroupPool[1]})
    \/ Macro(SessionIdInputs, {"net", "xyz"})
    \/ Connect(SessionConnInputs)
    \/ New({"elab", "xx"}, {<<"b1">>}, {<<"t1">>})
    \/ Blank

Spec == Init /\ [][Next]_vars

(***************************************************************************)
(* The whole program started on an output file that an earlier session     *)
(* left: each row holds no Diagram yet, or a Diagram that was annotated to *)
(* the end (grouping, connectivity and RST marked done, complete set).     *)
(***************************************************************************)
StoredComplete ==
    LET d0 == Diagram(Annotations[1])
        g == group_nodes(d0.layout_graph, <<"b1", "b2", "t1">>, GroupPool[1]).g
        d1 == PcDone([d0 EXCEPT !.layout_graph = g], "layout").d
        d2 == PcDone(OpenConnectivity(d1), "connectivity").d
    IN  [d2 EXCEPT !.rst_complete = TRUE, !.done_seen["rst"] = TRUE,
                   !.complete = TRUE]

InitResume ==
    /\ pc = "idle"
    /\ ix = 1
    /\ review = FALSE
    /\ disable_rst = FALSE
    /\ d = NoDiagram
    /\ disk \in [1..NumRows -> {NoDiagram, StoredComplete}]
    /\ last = Step("none", "none", "applied", Nothing, NoAttr)

SpecResume == InitResume /\ [][Next]_vars

(***************************************************************************)
(* The edits of the three layers on their own: the loop of each layer      *)
(* waits for input and the operator types edits only.  The connectivity    *)
(* loop is the one opened after b1, b2 and t1 were grouped and the layout  *)
(* was marked done; create_relation is handed the graph of the elements.   *)
(***************************************************************************)
\* the graph of the elements that the RST layer starts from
RstGraphFrom(layout) == ConnGraphFrom(layout)

GroupedDiagram ==
    LET d0 == Diagram(Annotations[1])
        g == group_nodes(d0.layout_graph, <<"b1", "b2", "t1">>, GroupPool[1]).g
        d1 == PcDone([d0 EXCEPT !.layout_graph = g], "layout").d
    IN  OpenConnectivity(d1)

RelatedDiagram ==
    LET d2 == PcDone(GroupedDiagram, "connectivity").d
    IN  [d2 EXCEPT !.rst_graph = RstGraphFrom(d2.layout_graph)]

EditGroupInputs ==
    {<<"b1", "b2">>, <<"t1", "g1">>, <<"b1", "i0">>, <<"b1", "zz">>, <<"t1">>,
     <<"B1", "b2">>}

EditIdInputs == {<<"g1">>, <<"zz">>}

\* on the layout layer the image constant is freed, on the other two, whose
\* graphs have lost it with the isolates, a blob
EditFreeInputs(layer) ==
    IF layer = "layout" THEN {<<"g1">>, <<"i0">>, <<"zz">>}
    ELSE {<<"g1">>, <<"b1">>, <<"zz">>}

EditRmInputs == {<<"g1">>, <<"b1">>, <<"r1">>, <<"zz">>}

EditConnInputs ==
    {<<"t1", "<>", "b1,", "b2">>, <<"t1", ">", "b1">>, <<"b1", "-", "b2">>,
     <<"b1", "b2">>, <<"b1", "-", "zz">>, <<"B1", "-", "b2">>}

EditRelations == {"elab", "join", "xx"}

EditFirsts == {<<"b1">>, <<"r1">>, <<"b1", "t1">>, <<"zz">>}

EditSeconds == {<<"t1">>, <<"r1">>, <<>>, <<"zz">>}

InitEdits ==
    /\ pc \in Layers
    /\ ix = 1
    /\ review = FALSE
    /\ disable_rst = FALSE
    /\ d = CASE pc = "layout" -> Diagram(Annotations[1])
             [] pc = "connectivity" -> GroupedDiagram
             [] OTHER -> RelatedDiagram
    /\ disk = [r \in 1..NumRows |-> NoDiagram]
    /\ last = Step("open", "none", "applied", Nothing, NoAttr)

NextEdits ==
    \/ Group(EditGroupInputs, GroupIds)
    \/ Macro(EditIdInputs, {"net", "xyz"})
    \/ Connect(EditConnInputs)
    \/ New(EditRelations, EditFirsts, EditSeconds)
    \/ Free(EditFreeInputs(pc))
    \/ Rm(EditRmInputs)

SpecEdits == InitEdits /\ [][NextEdits]_vars

(***************************************************************************)
(* core/parse.py on its own: an annotation is loaded and one of the        *)
(* functions is called on it.  Here last holds the call (the annotation,   *)
(* the arguments edges and arrowheads) and what it returned, and           *)
(* d.layout_graph the graph that create_graph returned.                    *)
(***************************************************************************)
\* how many relations the annotation may hold
MaxRelationships == 2

\* the relations of the annotations: an arrow and its head, a relation that
\* goes through the arrow, a relation without connector, a relation whose
\* connector is null
RawRelations ==
    {[category |-> "arrowHeadTail", origin |-> "A1", destination |-> "H1",
      connector |-> NoAttr],
     [category |-> "interObjectLinkage", origin |-> "B1", destination |-> "T1",
      connector |-> "A1"],
     [category |-> "intraObjectLabel", origin |-> "T1", destination |-> "B1",
      connector |-> NoAttr],
     [category |-> "intraObjectLinkage", origin |-> "B1", destination |-> "T1",
      connector |-> NullConnector]}

\* the ids of the buckets of the annotations
BucketIds ==
    [b \in Range(ParseTargets) |->
        CASE b = "blobs" -> <<"B1">> [] b = "arrows" -> <<"A1">>
          [] b = "text" -> <<"T1">> [] b = "arrowHeads" -> <<"H1">>
          [] OTHER -> <<>>]

\* the keys an annotation may lack
MissingKeys ==
    {{}, {"arrows"}, {"arrowHeads"}, {"imageConsts"}, {"blobs"}, {"relationships"}}

ParseAnnotations ==
    {[keys |-> (Range(ParseTargets) \cup {"relationships"}) \ m,
      ids |-> [b \in Range(ParseTargets) |-> IF b \in m THEN <<>> ELSE BucketIds[b]],
      relationships |-> IF "relationships" \in m THEN <<>> ELSE rs] :
        m \in MissingKeys,
        rs \in UNION {[1..k -> RawRelations] : k \in 0..MaxRelationships}}

InitParse ==
    /\ pc = "parse"
    /\ ix = 1
    /\ review = FALSE
    /\ disable_rst = FALSE
    /\ d = NoDiagram
    /\ disk = [r \in 1..NumRows |-> NoDiagram]
    /\ \E a \in ParseAnnotations, e \in BOOLEAN, h \in BOOLEAN :
          last = [act |-> "load", res |-> "applied", annotation |-> a,
                  edges |-> e, arrowheads |-> h,
                  elements |-> <<>>, types |-> <<>>]

\* parse_annotation(annotation)
ParseAnnotation ==
    /\ pc = "parse"
    /\ LET p == parse_annotation(last.annotation)
       IN  last' = [last EXCEPT !.act = "parse_annotation", !.res = p.res,
                                !.elements = p.diagram_elements]
    /\ pc' = "idle"
    /\ UNCHANGED <<ix, review, disable_rst, d, disk>>

\* extract_types(elements, annotation) with the ids of the annotation's
\* buckets for elements
ExtractTypes ==
    /\ pc = "parse"
    /\ LET a == last.annotation
           elements == Flatten([i \in 1..Len(ParseTargets) |-> a.ids[ParseTargets[i]]])
       IN  last' = [last EXCEPT !.act = "extract_types", !.res = "applied",
                                !.elements = elements,
                                !.types = extract_types(elements, a)]
    /\ pc' = "idle"
    /\ UNCHANGED <<ix, review, disable_rst, d, disk>>

\* create_graph(annotation, edges, arrowheads)
CreateGraph ==
    /\ pc = "parse"
    /\ LET r == create_graph_of(last.annotation, last.edges, last.arrowheads)
       IN  /\ last' = [last EXCEPT !.act = "create_graph", !.res = r.res]
           /\ d' = [NoDiagram EXCEPT !.layout_graph = r.g]
    /\ pc' = "idle"
    /\ UNCHANGED <<ix, review, disable_rst, disk>>

NextParse ==
    \/ ParseAnnotation
    \/ ExtractTypes
    \/ CreateGraph

SpecParse == InitParse /\ [][NextParse]_vars

(***************************************************************************)
(* Properties                                                              *)
(***************************************************************************)
\* the Diagram in memory and the Diagrams of the output file
AllDiagrams == {d} \cup Range(disk)

\* two graphs with the same node set and the same edge set
SameShape(g, h) ==
    /\ NodeSet(g) = NodeSet(h)
    /\ {e.ends : e \in g.edges} = {e.ends : e \in h.edges}

\* C1: in every Diagram, in memory or in the output file, in first, resumed
\* and review sessions alike, connectivity_complete is never true while
\* group_complete is false and rst_complete is never true while
\* connectivity_complete is false.
C1_LayerOrdering ==
    \A dg \in AllDiagrams :
        /\ dg.connectivity_complete => dg.group_complete
        /\ dg.rst_complete => dg.connectivity_complete

\* a review session has opened a stored Diagram whose connectivity was
\* complete, and cleared its flags
C1_ReviewOpensComplete ==
    /\ review
    /\ last.act = "open"
    /\ pc = "layout"
    /\ disk[1].connectivity_complete
    /\ ~d.connectivity_complete

\* C2: once done has been executed on a layer, no command changes the node
\* set or the edge set of that layer's graph, in review sessions too (there
\* is no step that replaces the graph by an unfrozen copy).
C2_FreezeInvariant ==
    [][(pc \in Layers /\ d'.made) =>
          \A l \in Layers :
              d.done_seen[l] => SameShape(GraphOf(d, l), GraphOf(d', l))]_vars

\* in a review session the operator has typed a grouping of nodes of the
\* sealed layout graph, and the grouping raised
C2_EditOfSealedLayer ==
    /\ review
    /\ last.act = "group"
    /\ last.res = "crash"
    /\ d.done_seen["layout"]
    /\ d.layout_graph.frozen

\* the tokens of a list that are not in valid
Unknown(tokens, valid) == {tokens[i] : i \in 1..Len(tokens)} \ valid

\* the identifiers of a connection: its tokens without the connector, commas
\* stripped
ConnIds(user_input) ==
    {StripComma(user_input[i]) :
        i \in {j \in 1..Len(user_input) : user_input[j] \notin Range(ConnectionAliases)}}

\* the identifiers create_relation takes for valid
RstValid(g) ==
    {Lower(n) : n \in Range(get_node_dict(g, "node"))} \cup RelAliases(g)

\* the command typed in the step is one to reject: an unknown token, no
\* connector, an unknown macro group, an unknown relation, a wrong number of
\* nuclei
C3_ToReject ==
    \/ /\ last'.act = "group"
       /\ Unknown(last'.input, ValidElems(d.layout_graph)) # {}
    \/ /\ last'.act = "macro"
       /\ \/ Unknown(last'.input, ValidElems(d.layout_graph)) # {}
          \/ last'.answer \notin MacroAliases \cup MacroNames
    \/ /\ last'.act = "connect"
       /\ \/ Range(last'.input) \cap Range(ConnectionAliases) = {}
          \/ ConnIds(last'.input) \ {Lower(n) : n \in NodeSet(d.connectivity_graph)} # {}
    \/ /\ last'.act = "new"
       /\ \/ last'.answer \notin RstRelations
          \/ RstKind(last'.answer) = "mono" /\ Len(last'.input) # 1
          \/ RstKind(last'.answer) = "multi" /\ Len(last'.input) <= 1
          \/ Unknown(last'.input, RstValid(d.rst_graph)) # {}
          \/ /\ RstKind(last'.answer) = "mono"
             /\ Unknown(last'.more, RstValid(d.rst_graph)) # {}
    \/ /\ last'.act = "free"
       /\ Unknown(last'.input, ValidElems(GraphOf(d, pc))) # {}
    \/ /\ last'.act = "rm"
       /\ Unknown(last'.input,
                  ValidElems(GraphOf(d, pc))
                  \cup (IF pc = "rst" THEN RelAliases(GraphOf(d, pc)) ELSE {})) # {}

C4_DoneSealsLayer ==
    (last.act = "done" /\ d.made) =>
        LET g == GraphOf(d, last.layer)
        IN  /\ g.exists
            /\ g.frozen
            /\ Isolates(g) = {}
            /\ FlagOf(d, last.layer)

\* C5: when the pass over a Diagram ends, complete is true exactly when
\* grouping and connectivity are complete and RST is complete or disabled.
C5_CompleteAtPassEnd ==
    (pc = "row" /\ d.made) =>
        (d.complete <=>
            /\ d.group_complete
            /\ d.connectivity_complete
            /\ (d.rst_complete \/ disable_rst))

\* C6: a done or a next that was carried out is followed by the write of the
\* Diagram to the output file before the next command is read.
C6_DoneAndNextAreSaved ==
    [][(pc \in Layers /\ last'.act \in {"done", "next"} /\ last'.res = "applied")
          => disk'[ix] = d']_vars

\* the nodes a grouping names: aliases stand for their groups
Named(g, tokens) ==
    {Upper(t) : t \in Range(ReplaceAliases(g, tokens))}

\* C7: a grouping of k >= 2 valid distinct nodes adds one node, of kind
\* group, and k edges, one between each named node and the new node, and
\* changes nothing else.
C7_GroupAddsOneNode ==
    [][(/\ pc = "layout"
        /\ last'.act = "group"
        /\ Unknown(last'.input, ValidElems(d.layout_graph)) = {}
        /\ Cardinality(Named(d.layout_graph, last'.input)) >= 2
        /\ ~d.layout_graph.frozen)
       => LET g == d.layout_graph
              h == d'.layout_graph
              new == NodeSet(h) \ NodeSet(g)
          IN  /\ Cardinality(new) = 1
              /\ \A n \in new :
                    /\ h.kind[n] = "group"
                    /\ h.edges \ g.edges =
                          {[ends |-> {m, n}, kind |-> NoAttr] :
                              m \in Named(g, last'.input)}
              /\ g.edges \subseteq h.edges
              /\ \A m \in NodeSet(g) : h.kind[m] = g.kind[m]]_vars

\* C8: the id of a newly created group is the id of no node of the layout
\* graph.
C8_GroupIdIsFresh ==
    [][(pc = "layout" /\ last'.act = "group" /\ last'.id # NoAttr)
          => last'.id \notin NodeSet(d.layout_graph)]_vars

\* C9: every edge of the layout graph joins two nodes, one of them a group.
C9_EdgesEndInGroup ==
    \A e \in d.layout_graph.edges :
        /\ Cardinality(e.ends) = 2
        /\ \E n \in e.ends : d.layout_graph.kind[n] = "group"

\* the tokens of a connection before (after) its connector
Sources(user_input, alias) ==
    {StripComma(user_input[i]) : i \in 1..(IndexOf(user_input, alias) - 1)}

Targets(user_input, alias) ==
    {StripComma(user_input[i]) :
        i \in (IndexOf(user_input, alias) + 1)..Len(user_input)}

\* C10: a <> command with valid disjoint sources S and targets T adds
\* 2*|S|*|T| edges, all of the bidirectional kind.
C10_BidirectionalEdges ==
    [][(/\ pc = "connectivity"
        /\ last'.act = "connect"
        /\ last'.res = "applied"
        /\ "<>" \in Range(last'.input))
       => LET S == Sources(last'.input, "<>")
              T == Targets(last'.input, "<>")
              added == d'.connectivity_graph.edges \ d.connectivity_graph.edges
          IN  /\ Cardinality(added) = 2 * Cardinality(S) * Cardinality(T)
              /\ \A e \in added : e.kind = "bidirectional"]_vars

\* G.has_edge(u, v) in the undirected nx.Graph: the edge between u and v,
\* whichever way it was written
HasEdge(g, u, v) == \E e \in g.edges : e.ends = {u, v}

\* C11: a > command with one valid source s and one valid target t adds one
\* edge of the directional kind, and afterwards the connectivity graph holds
\* a connection from S to T and none from T to S.
C11_DirectedEdge ==
    [][(/\ pc = "connectivity"
        /\ last'.act = "connect"
        /\ last'.res = "applied"
        /\ ">" \in Range(last'.input)
        /\ Cardinality(Sources(last'.input, ">")) = 1
        /\ Cardinality(Targets(last'.input, ">")) = 1)
       => \A s \in Sources(last'.input, ">"), t \in Targets(last'.input, ">") :
             LET h == d'.connectivity_graph
             IN  /\ [ends |-> {Upper(s), Upper(t)}, kind |-> "directional"] \in h.edges
                 /\ HasEdge(h, Upper(s), Upper(t))
                 /\ ~HasEdge(h, Upper(t), Upper(s))]_vars

\* C12: when new is applied and a participant is typed as a relation alias
\* r<k>, the edge of that participant (kind nucleus for a nucleus, kind
\* satellite for a satellite) is attached to the relation that r<k> named
\* when the command was typed, and no node named after the alias is in the
\* graph.
EdgeOfKindAt(g, n, k) == \E e \in g.edges : e.kind = k /\ n \in e.ends

C12_AliasParticipant ==
    [][(pc = "rst" /\ last'.act = "new" /\ last'.res = "applied") =>
         LET g == d.rst_graph
             h == d'.rst_graph
             satellites == IF RstKind(Lower(last'.answer)) = "mono"
                           THEN Range(last'.more) ELSE {}
         IN  /\ \A p \in Range(last'.input) \cap RelAliases(g) :
                   /\ Upper(p) \notin NodeSet(h)
                   /\ EdgeOfKindAt(h, RelOfAlias(g, p), "nucleus")
             /\ \A p \in satellites \cap RelAliases(g) :
                   /\ Upper(p) \notin NodeSet(h)
                   /\ EdgeOfKindAt(h, RelOfAlias(g, p), "satellite")]_vars

\* C13: every Relation node of the RST graph has, if mononuclear, exactly
\* one nucleus and at least one satellite, and, if multinuclear, at least two
\* nuclei and no satellites.
C13_ParticipantCounts ==
    \A n \in Range(get_node_dict(d.rst_graph, "relation")) :
        LET a == d.rst_graph.rel[n]
        IN  IF "nuclei" \in a.keys
            THEN Len(a.nuclei) >= 2 /\ "satellites" \notin a.keys
            ELSE Len(a.nucleus) = 1 /\ Len(a.satellites) >= 1

\* C14: no Relation node of the RST graph is its own participant: no edge of
\* the graph joins a Relation node to itself, and the edges that join two
\* Relation nodes form no cycle.
C14_NoSelfParticipation ==
    LET g == d.rst_graph
        rels == Range(get_node_dict(g, "relation"))
        inside(S) == {e \in g.edges : e.ends \subseteq S /\ Cardinality(e.ends) = 2}
    IN  /\ \A e \in g.edges : Cardinality(e.ends) = 1 => e.ends \cap rels = {}
        /\ \A S \in SUBSET rels :
              S # {} => Cardinality({e.ends : e \in inside(S)}) < Cardinality(S)

\* C15: a new that is applied gives the relation an id that no node of the
\* RST graph has: the number of Relation nodes grows by exactly one, and
\* every relation that was in the graph keeps its name, its participants and
\* its edges.
C15_RelationIdIsFresh ==
    [][(pc = "rst" /\ last'.act = "new" /\ last'.res = "applied") =>
         LET g == d.rst_graph
             h == d'.rst_graph
             before == Range(get_node_dict(g, "relation"))
             after == Range(get_node_dict(h, "relation"))
         IN  /\ before \subseteq after
             /\ Cardinality(after) = Cardinality(before) + 1
             /\ (after \ before) \cap NodeSet(g) = {}
             /\ \A n \in before : h.rel[n] = g.rel[n]
             /\ g.edges \subseteq h.edges]_vars

\* C16: the participants recorded on a Relation node (nucleus, satellites,
\* nuclei) are node ids, never r<k> aliases.
C16_RecordedIdsAreStable ==
    \A n \in Range(get_node_dict(d.rst_graph, "relation")) :
        LET a == d.rst_graph.rel[n]
        IN  (Range(a.nucleus) \cup Range(a.satellites) \cup Range(a.nuclei))
                \cap Range(RelAliasNames) = {}

C18_RmRemovesNamed ==
    [][(pc \in Layers /\ last'.act = "rm" /\ last'.res = "applied") =>
         LET g == GraphOf(d, pc)
             h == GraphOf(d', pc)
             named == {IF t \in GroupAliases(g) THEN GroupOfAlias(g, t)
                       ELSE IF pc = "rst" /\ t \in RelAliases(g)
                       THEN RelOfAlias(g, t)
                       ELSE Upper(t) : t \in Range(last'.input)}
         IN  /\ NodeSet(h) = NodeSet(g) \ named
             /\ h.edges = {e \in g.edges : e.ends \cap named = {}}]_vars

\* C19: reset on a layer is applied and leaves the operator on the layer
\* with an unfrozen graph; the graphs of the other two layers and the four
\* completion flags are unchanged.
C19_ResetRestores ==
    [][(pc \in Layers /\ last'.act = "reset") =>
         /\ last'.res = "applied"
         /\ pc' = pc
         /\ GraphOf(d', pc).exists /\ ~GraphOf(d', pc).frozen
         /\ \A l \in Layers \ {pc} : GraphOf(d', l) = GraphOf(d, l)
         /\ \A l \in Layers : FlagOf(d', l) = FlagOf(d, l)
         /\ d'.complete = d.complete]_vars

\* C20: when a review session opens a layer of a stored Diagram, the flag of
\* that layer and the aggregate flag are false, the graph of that layer is
\* not frozen, and the flags and the graphs of the other layers are those of
\* the stored Diagram.
C20_ReviewReopensOneLayer ==
    [][(pc = "row" /\ review /\ ix <= NumRows /\ disk[ix].made
            /\ last'.act = "open" /\ pc' \in Layers) =>
         /\ ~FlagOf(d', pc') /\ ~d'.complete
         /\ ~GraphOf(d', pc').frozen
         /\ \A l \in Layers \ {pc'} :
               /\ FlagOf(d', l) = FlagOf(disk[ix], l)
               /\ GraphOf(d', l) = GraphOf(disk[ix], l)]_vars

C22_RstGraphDefined ==
    [][pc' = "rst" =>
         /\ d'.rst_graph.exists
         /\ (pc # "rst" =>
               NodeSet(d'.rst_graph) =
                   {n \in NodeSet(d'.layout_graph) :
                       d'.layout_graph.kind[n] # "group"})]_vars

\* every token, compared without regard to case, is a node id of the graph
\* or a group alias of the graph
ValidWithoutCase(tokens, g) ==
    {Lower(t) : t \in tokens} \subseteq
        ({Lower(n) : n \in NodeSet(g)} \cup GroupAliases(g))

\* C23: a grouping list of two or more tokens, and the sources and targets
\* of a connection, are accepted if and only if every token, compared
\* without regard to letter case, names a node or a current alias of the
\* graph.
C23_ValidationIgnoresCase ==
    [][/\ (pc = "layout" /\ last'.act = "group" /\ Len(last'.input) >= 2) =>
             (last'.res # "rejected" <=>
                 ValidWithoutCase(Range(last'.input), d.layout_graph))
       /\ (pc = "connectivity" /\ last'.act = "connect"
             /\ Range(last'.input) \cap Range(ConnectionAliases) # {}) =>
             (last'.res # "rejected" <=>
                 ValidWithoutCase(ConnIds(last'.input), d.connectivity_graph))]_vars

\* C24: when a grouping of two or more valid nodes has made a group and the
\* next command removes that group with rm, the layout graph has the nodes
\* it had before the grouping, and no edge ends at the group.
C24_GroupThenRm ==
    [][(/\ pc = "layout"
        /\ last.act = "group" /\ last.res = "applied" /\ last.id # NoAttr
        /\ Cardinality(Range(last.input)) >= 2
        /\ last'.act = "rm" /\ last'.res = "applied"
        /\ Len(last'.input) = 1
        /\ last'.input[1] \in GroupAliases(d.layout_graph)
        /\ GroupOfAlias(d.layout_graph, last'.input[1]) = last.id)
       => /\ NodeSet(d'.layout_graph) = last.was
          /\ EdgesAt(d'.layout_graph, {last.id}) = {}]_vars

\* the positions of the nodes of a kind in the node order of a graph
PlacesOf(g, kind) == {i \in 1..Len(g.nodes) : g.kind[g.nodes[i]] = kind}

\* C25: in the layout graph the group aliases are g1..gn for the n group
\* nodes, and g<k> is the k-th group node in node insertion order; in the RST
\* graph the relation aliases are r1..rn for the n relation nodes, and r<k>
\* is the k-th relation node in node insertion order.
C25_AliasesFollowNodeOrder ==
    /\ LET g == d.layout_graph
           at == PlacesOf(g, "group")
       IN  \A k \in 1..Len(GroupAliasNames) :
               /\ GroupAliasNames[k] \in GroupAliases(g) <=> k <= Cardinality(at)
               /\ k <= Cardinality(at) =>
                     \E i \in at :
                         /\ Cardinality({j \in at : j < i}) = k - 1
                         /\ GroupOfAlias(g, GroupAliasNames[k]) = g.nodes[i]
    /\ LET g == d.rst_graph
           at == PlacesOf(g, "relation")
           relation_ix == get_node_dict(g, "relation")
       IN  /\ Len(relation_ix) = Cardinality(at)
           /\ \A k \in 1..Len(relation_ix) :
                  \E i \in at :
                      /\ Cardinality({j \in at : j < i}) = k - 1
                      /\ relation_ix[k] = g.nodes[i]

\* the layout graph has two groups, or the RST graph has two relations
C25_TwoOfAKind ==
    \/ /\ pc = "layout"
       /\ Cardinality(PlacesOf(d.layout_graph, "group")) = 2
       /\ GroupOfAlias(d.layout_graph, "g1") # GroupOfAlias(d.layout_graph, "g2")
    \/ /\ pc = "rst"
       /\ Cardinality(PlacesOf(d.rst_graph, "relation")) = 2

\* C26: macro <ids> with a valid macro group or abbreviation sets the
\* macro_group attribute of the listed nodes, a group alias standing for its
\* group, to the full name of the macro group and changes nothing else; with
\* an invalid macro group the Diagram is unchanged.
C26_MacroSetsListedNodes ==
    [][(pc = "layout" /\ last'.act = "macro"
            /\ Unknown(last'.input, ValidElems(d.layout_graph)) = {}) =>
         LET g == d.layout_graph
             h == d'.layout_graph
             listed == Named(g, last'.input)
             full == IF last'.answer \in MacroAliases
                     THEN MacroName(last'.answer) ELSE last'.answer
         IN  IF last'.answer \in MacroAliases \cup MacroNames
             THEN /\ last'.res = "applied"
                  /\ h.macro = [m \in NodeSet(g) |->
                                   IF m \in listed THEN full ELSE g.macro[m]]
                  /\ h.nodes = g.nodes /\ h.kind = g.kind /\ h.rel = g.rel
                  /\ h.edges = g.edges /\ h.frozen = g.frozen
                  /\ d' = [d EXCEPT !.layout_graph = h]
             ELSE last'.res = "rejected" /\ d' = d]_vars

\* macro g1 was answered with the abbreviation net: the first group is
\* tagged network
C26_GroupTagged ==
    /\ pc = "layout"
    /\ last.act = "macro" /\ last.res = "applied"
    /\ last.input = <<"g1">> /\ last.answer = "net"
    /\ d.layout_graph.macro[GroupOfAlias(d.layout_graph, "g1")] = "network"
    /\ \E m \in NodeSet(d.layout_graph) : d.layout_graph.macro[m] # "network"

\* C27: with arrowheads false the graph create_graph returns has no node
\* that is an arrowhead of the annotation, whatever edges is and whatever
\* the relations are.
C27_NoArrowheadNodes ==
    [][(pc = "parse" /\ last'.act = "create_graph" /\ last'.res = "applied"
            /\ ~last.arrowheads) =>
         NodeSet(d'.layout_graph)
             \cap Range(last.annotation.ids["arrowHeads"]) = {}]_vars

\* the endpoint pairs the relations are to give, taken in order: table maps
\* the arrows met so far to their arrowheads
RECURSIVE ExpectedEdges(_, _)
ExpectedEdges(relations, table) ==
    IF relations = <<>> THEN {}
    ELSE LET r == Head(relations)
             tail == r.category = "arrowHeadTail"
             now == IF tail
                    THEN [a \in DOMAIN table \cup {r.origin} |->
                             IF a = r.origin THEN r.destination ELSE table[a]]
                    ELSE table
             own == (IF tail THEN {{r.origin, r.destination}} ELSE {})
                    \cup (IF r.connector = NoAttr THEN {{r.origin, r.destination}}
                          ELSE IF r.connector = NullConnector THEN {}
                          ELSE IF r.connector \in DOMAIN now
                          THEN {{r.origin, r.connector},
                                {now[r.connector], r.destination}}
                          ELSE {{r.origin, r.connector},
                                {r.connector, r.destination}})
         IN  own \cup ExpectedEdges(Tail(relations), now)

\* C28: with edges true the edges of the graph create_graph returns are
\* those its relations give when taken in input order: an arrowHeadTail
\* relation gives origin-destination and enters origin -> destination in the
\* table; a relation with a connector gives origin-connector and
\* arrowhead(connector)-destination when the connector is in the table at
\* that moment, and origin-connector and connector-destination otherwise; a
\* relation without connector field gives origin-destination.
C28_EdgesFromRelations ==
    [][(pc = "parse" /\ last'.act = "create_graph" /\ last'.res = "applied"
            /\ last.edges) =>
         {e.ends : e \in d'.layout_graph.edges}
             = ExpectedEdges(last.annotation.relationships, <<>>)]_vars

\* a graph was built with edges from an arrow with its head followed by a
\* relation through that arrow: the arrowhead is joined to the destination
C28_ThroughArrowhead ==
    /\ last.act = "create_graph" /\ last.res = "applied" /\ last.edges
    /\ Len(last.annotation.relationships) = 2
    /\ last.annotation.relationships[1].category = "arrowHeadTail"
    /\ last.annotation.relationships[2].connector = "A1"
    /\ {e.ends : e \in d.layout_graph.edges}
           = {{"A1", "H1"}, {"B1", "A1"}, {"H1", "T1"}}

\* C29: parse_annotation and extract_types succeed on an annotation that
\* lacks some of the element buckets or the relationships: the elements
\* returned are the ids of the buckets that are there, each with the kind of
\* its bucket.
C29_MissingBuckets ==
    [][pc = "parse" =>
         LET a == last.annotation
             there == Range(ParseTargets) \cap a.keys
         IN  /\ last'.act = "parse_annotation" =>
                   /\ last'.res = "applied"
                   /\ Range(last'.elements) = UNION {Range(a.ids[b]) : b \in there}
             /\ last'.act = "extract_types" =>
                   /\ last'.res = "applied"
                   /\ Range(last'.types) =
                          UNION {{<<e, b>> : e \in Range(a.ids[b])} : b \in there}]_vars

(***************************************************************************)
(* C30: an empty line typed at the prompt of any layer is ignored: the     *)
(* Diagram (graphs, flags) is as it was, nothing is raised out of the      *)
(* loop, and the same layer prompts again.                                 *)
(***************************************************************************)
C30_BlankIsIgnored ==
    [][last'.act = "blank" =>
          /\ last'.res # "crash"
          /\ d' = d
          /\ pc' = pc]_vars

(***************************************************************************)
(* C31: export leaves the graph of the layer it exports as it was: the     *)
(* same nodes and the same edges before and after the command, on every    *)
(* layer.                                                                  *)
(***************************************************************************)
C31_ExportKeepsGraph ==
    [][last'.act = "export" =>
          /\ GraphOf(d', last'.layer).nodes = GraphOf(d, last'.layer).nodes
          /\ GraphOf(d', last'.layer).edges = GraphOf(d, last'.layer).edges]_vars

(***************************************************************************)
(* C32: a group is created only when the grouping input names at least two *)
(* distinct nodes: input that names a single node, or the same node        *)
(* repeated, is rejected and leaves the Diagram as it was.                 *)
(***************************************************************************)
C32_GroupNeedsTwo ==
    [][(/\ last'.act = "group"
        /\ Cardinality(Range(last'.input)) < 2) =>
          /\ last'.res = "rejected"
          /\ d' = d]_vars

\* the endpoint pairs of the edges of a graph
EndsOf(g) == {e.ends : e \in g.edges}

(***************************************************************************)
(* C33: what was entered on a layer before next is a checkpoint: when the  *)
(* driver opens a stored Diagram on a layer that was left without done,    *)
(* the graph the layer loop works on holds every node and every edge of    *)
(* the graph that was stored for that layer.                               *)
(***************************************************************************)
C33_NextIsCheckpoint ==
    [][(/\ pc = "row"
        /\ pc' \in Layers
        /\ disk[ix].made
        /\ ~FlagOf(disk[ix], pc')
        /\ GraphOf(disk[ix], pc').exists) =>
          /\ NodeSet(GraphOf(disk[ix], pc')) \subseteq NodeSet(GraphOf(d', pc'))
          /\ EndsOf(GraphOf(disk[ix], pc')) \subseteq EndsOf(GraphOf(d', pc'))]_vars

(***************************************************************************)
(* C34: when the driver has finished a diagram (its pass ended by done, by *)
(* next, or the diagram was complete already) it stores the Diagram in the *)
(* collection and writes the collection to the output file before it goes  *)
(* to the next row: the file holds the Diagram in hand at that row and is  *)
(* as it was at the other rows.                                            *)
(***************************************************************************)
C34_StoredBeforeNextDiagram ==
    [][(pc # "idle" /\ pc' = "row") =>
          /\ ix' = ix + 1
          /\ d'.made
          /\ disk' = [disk EXCEPT ![ix] = d']]_vars

\* a pass over a Diagram that was complete already has ended and the file
\* holds the Diagram
C34_CompleteRowStored ==
    /\ pc = "row"
    /\ last.act = "open"
    /\ ix = 2
    /\ disk[1].complete
    /\ disk[1] = d

(***************************************************************************)
(* C35: on every layer the input done is taken as the done command: it     *)
(* raises nothing, sets the completion flag of the layer and ends the loop *)
(* of the layer, so that a layer whose operator types done is complete.    *)
(***************************************************************************)
C35_DoneCompletesLayer ==
    [][last'.act = "done" =>
          /\ last'.res = "applied"
          /\ FlagOf(d', last'.layer)
          /\ pc' \in (Layers \ {last'.layer}) \cup {"row"}]_vars

C37_EveryNodeHasKind ==
    \A m \in Layers :
        GraphOf(d, m).exists =>
            \A n \in NodeSet(GraphOf(d, m)) : GraphOf(d, m).kind[n] # NoAttr

(***************************************************************************)
(* C38: next changes no graph and no completion flag; after next on a      *)
(* layer the driver opens no later layer of the Diagram in the same pass,  *)
(* leaves complete false, stores the Diagram and goes to the next row.     *)
(***************************************************************************)
C38_NextLeavesDiagram ==
    [][last'.act = "next" =>
          /\ d' = d
          /\ ~d'.complete
          /\ pc' = "row"
          /\ ix' = ix + 1
          /\ disk'[ix] = d]_vars

\* next was typed on the connectivity layer of a Diagram whose grouping is
\* complete, and the driver is at the next row
C38_NextAfterGrouping ==
    /\ last.act = "next"
    /\ last.layer = "connectivity"
    /\ pc = "row"
    /\ d.group_complete
    /\ NodeSet(d.connectivity_graph) # {}

(***************************************************************************)
(* C39: with review mode off, a Diagram that is loaded with complete set   *)
(* is not opened again: no layer loop runs for it, and its graphs and      *)
(* flags are after the pass what they were in the file, which is written   *)
(* back as it was.                                                         *)
(***************************************************************************)
C39_CompleteStaysClosed ==
    [][(/\ pc = "row"
        /\ ix <= NumRows
        /\ pc' # "idle"
        /\ ~review
        /\ disk[ix].made
        /\ disk[ix].complete) =>
          /\ pc' = "row"
          /\ ix' = ix + 1
          /\ d' = disk[ix]
          /\ disk' = disk]_vars

\* a session without review has passed over a Diagram that was complete
C39_PassedOverComplete ==
    /\ pc = "row"
    /\ ~review
    /\ last.act = "open"
    /\ ix = NumRows + 1
    /\ disk[NumRows] = StoredComplete

====
